---------------------------- MODULE Spec2Model ----------------------------
(***************************************************************************)
(* PyVM: the evidence-fusion VM detector of vm_core.py.                    *)
(*                                                                         *)
(* Python strings are TLA+ strings, Python lists are sequences, Python     *)
(* dicts are functions (records where the keys are identifiers).  The      *)
(* Python value None is the string None below for an Optional[str] field   *)
(* and the one-element list NoneList for a list field.                     *)
(***************************************************************************)
EXTENDS Integers, Sequences, FiniteSets, TLC

VARIABLES
    host,   \* what the probes of the current run observe, and detect's flags
    art,    \* Detector.art, the ArtifactCollection the Detector owns
    res,    \* the outcome of the last detect call
    runs,   \* the number of detect calls made on this Detector
    pc,     \* "ready" (a call is about to be made), "done" or "raised"
    call    \* a direct call of score or sandbox_checks: arguments and return

vars == <<host, art, res, runs, pc, call>>

---------------------------------------------------------------------------
(* Python str operations *)

None == "<None>"
NoneList == <<None>>

\* 'if s:' for an Optional[str]
Truthy(s) == s # None /\ s # ""

\* 'xs or []' for an Optional[List[str]]
OrEmpty(xs) == IF xs = NoneList THEN <<>> ELSE xs

\* the printable ASCII characters in code point order (32..126); the grave
\* accent (96) cannot be written in a string here, a form feed holds its place
Ascii == " !\"#$%&'()*+,-./0123456789:;<=>?@ABCDEFGHIJKLMNOPQRSTUVWXYZ[\\]^_\fabcdefghijklmnopqrstuvwxyz{|}~"

Chars == {SubSeq(Ascii, i, i) : i \in 1..Len(Ascii)}

\* ord(c) - 31
Ord == [c \in Chars |-> CHOOSE i \in 1..Len(Ascii) : SubSeq(Ascii, i, i) = c]

UpperTable == [c \in Chars |->
    IF Ord[c] >= Ord["a"] /\ Ord[c] <= Ord["z"]
    THEN SubSeq(Ascii, Ord[c] - 32, Ord[c] - 32) ELSE c]

LowerTable == [c \in Chars |->
    IF Ord[c] >= Ord["A"] /\ Ord[c] <= Ord["Z"]
    THEN SubSeq(Ascii, Ord[c] + 32, Ord[c] + 32) ELSE c]

RECURSIVE MapChars(_, _)
MapChars(t, s) ==
    IF s = "" THEN ""
    ELSE t[SubSeq(s, 1, 1)] \o MapChars(t, SubSeq(s, 2, Len(s)))


\* 'k in s' for two strings
Contains(k, s) ==
    \E i \in 1..(Len(s) - Len(k) + 1) : SubSeq(s, i, i + Len(k) - 1) = k

\* s.startswith(k)
StartsWith(s, k) == Len(k) <= Len(s) /\ SubSeq(s, 1, Len(k)) = k

\* s.replace(k, "") for a non-empty k
RECURSIVE Remove(_, _)
Remove(s, k) ==
    IF s = "" THEN ""
    ELSE IF StartsWith(s, k) THEN Remove(SubSeq(s, Len(k) + 1, Len(s)), k)
    ELSE SubSeq(s, 1, 1) \o Remove(SubSeq(s, 2, Len(s)), k)

\* s.split(k)[0] for a one-character k
RECURSIVE SplitHead(_, _)
SplitHead(s, k) ==
    IF s = "" \/ SubSeq(s, 1, 1) = k THEN ""
    ELSE SubSeq(s, 1, 1) \o SplitHead(SubSeq(s, 2, Len(s)), k)

\* a < b for two strings (code point order, a proper prefix first)
RECURSIVE StrLess(_, _)
StrLess(a, b) ==
    IF b = "" THEN FALSE
    ELSE IF a = "" THEN TRUE
    ELSE LET x == Ord[SubSeq(a, 1, 1)]
             y == Ord[SubSeq(b, 1, 1)]
         IN  IF x # y THEN x < y
             ELSE StrLess(SubSeq(a, 2, Len(a)), SubSeq(b, 2, Len(b)))

\* sorted(S) for a set of strings
RECURSIVE Sorted(_)
Sorted(S) ==
    IF S = {} THEN <<>>
    ELSE LET m == CHOOSE x \in S : \A y \in S : ~StrLess(y, x)
         IN  <<m>> \o Sorted(S \ {m})

\* the set of a list's entries
Range(xs) == {xs[i] : i \in 1..Len(xs)}

\* len([x for x in xs if P(x)])
Count(xs, P(_)) == Cardinality({i \in 1..Len(xs) : P(xs[i])})

\* [x for x in xs if P(x)], in order
Filter(xs, P(_)) ==
    LET F[i \in 0..Len(xs)] ==
            IF i = 0 THEN <<>>
            ELSE IF P(xs[i]) THEN Append(F[i - 1], xs[i]) ELSE F[i - 1]
    IN  F[Len(xs)]

\* s.strip()
RECURSIVE LStrip(_)
LStrip(s) ==
    IF s # "" /\ SubSeq(s, 1, 1) \in {" ", "\t", "\n", "\r"}
    THEN LStrip(SubSeq(s, 2, Len(s))) ELSE s

RECURSIVE RStrip(_)
RStrip(s) ==
    IF s # "" /\ SubSeq(s, Len(s), Len(s)) \in {" ", "\t", "\n", "\r"}
    THEN RStrip(SubSeq(s, 1, Len(s) - 1)) ELSE s

Strip(s) == RStrip(LStrip(s))

\* d.get(k) for a dict whose values are truthy or falsy: falsy when k is missing
Get(d, k) == IF k \in DOMAIN d THEN d[k] ELSE FALSE

\* {}
EmptyDict == [k \in {} |-> FALSE]

\* 'd[k]' where a loop 'for k, v in d.items()' reaches k, an empty list otherwise
Lookup(d, k) == IF k \in DOMAIN d THEN d[k] ELSE <<>>

Max(a, b) == IF a >= b THEN a ELSE b
Min(a, b) == IF a <= b THEN a ELSE b

---------------------------------------------------------------------------
(* Signatures & Config *)

VM_PCI_VENDORS ==
    "VirtualBox" :> <<"0x80EE">> @@
    "VMware"     :> <<"0x15AD">> @@
    "Hyper-V"    :> <<"0x1414">> @@
    "QEMU/KVM"   :> <<"0x1AF4", "0x1B36">> @@
    "Parallels"  :> <<"0x1AB8">> @@
    "Xen"        :> <<"0x5853">>

\* list(VM_PCI_VENDORS.keys()): the insertion order of the dict
platforms == <<"VirtualBox", "VMware", "Hyper-V", "QEMU/KVM", "Parallels", "Xen">>

VM_PCI_DEVICES ==
    "QEMU/KVM"   :> <<"0x29C0", "0x293E", "0x2918", "0x2922">> @@
    "VMware"     :> <<"0x07B0", "0x07C0">> @@
    "VirtualBox" :> <<"0x0400">>

VM_PCI_SIGNATURES ==
    "QEMU/KVM"   :> [vendors |-> {"1AF4", "1B36", "00DA", "1D0F"},
                     devices |-> {"29C0", "293E", "2918", "2922", "2930"}] @@
    "VMware"     :> [vendors |-> {"15AD"},
                     devices |-> {"07B0", "07C0", "0790", "07A0", "0740"}] @@
    "VirtualBox" :> [vendors |-> {"80EE"}, devices |-> {"0400", "CAFE", "BEEF"}] @@
    "Hyper-V"    :> [vendors |-> {"1414"}, devices |-> {"5353", "5801", "0700"}] @@
    "Xen"        :> [vendors |-> {"5853"}, devices |-> {"0001", "0002"}] @@
    "Parallels"  :> [vendors |-> {"1AB8"}, devices |-> {"4005", "0001"}]

MAC_PREFIXES ==
    "VirtualBox" :> <<"08:00:27">> @@
    "VMware"     :> <<"00:05:69", "00:0C:29", "00:1C:14", "00:50:56">> @@
    "Hyper-V"    :> <<"00:15:5D">> @@
    "QEMU/KVM"   :> <<"52:54:00">> @@
    "Parallels"  :> <<"00:1C:42">>

VM_CPUID_SIGS ==
    "VMware"     :> "VMwareVMware" @@
    "VirtualBox" :> "VBoxVBoxVBox" @@
    "QEMU/KVM"   :> "KVMKVMKVM"

VM_SOFT_KEYWORDS ==
    "VirtualBox" :> [bios |-> <<"virtualbox", "innotek", "oracle">>,
                     process |-> <<"vboxservice", "vboxtray">>] @@
    "VMware"     :> [bios |-> <<"vmware">>,
                     process |-> <<"vmtoolsd", "vmwaretray", "vmwareuser">>] @@
    "Hyper-V"    :> [bios |-> <<"microsoft corporation", "hyper-v">>,
                     process |-> <<"vmcompute", "vmguest.iso">>] @@
    "QEMU/KVM"   :> [bios |-> <<"qemu", "seabios">>,
                     process |-> <<"qemu-ga", "qemuguestagent">>] @@
    "Parallels"  :> [bios |-> <<"parallels">>,
                     process |-> <<"prltools", "prl_vm_app">>] @@
    "Xen"        :> [bios |-> <<"xen">>,
                     process |-> <<"xenstore", "xenconsoled">>]

ACPI_SIGS ==
    "VirtualBox" :> <<"VBOX__">> @@
    "VMware"     :> <<"VMWARE">> @@
    "QEMU/KVM"   :> <<"QEMU">> @@
    "Hyper-V"    :> <<"VMBUS">> @@
    "Xen"        :> <<"XEN_">>

\* the ACPI_SIGS keys in the dict's insertion order
ACPI_SIGS_keys == <<"VirtualBox", "VMware", "QEMU/KVM", "Hyper-V", "Xen">>

VM_DISK_VENDORS ==
    "QEMU/KVM"   :> <<"QEMU", "KVM">> @@
    "VirtualBox" :> <<"VBOX", "VBOX_HARDDISK", "Oracle">> @@
    "VMware"     :> <<"VMware", "VMWARE, Inc">> @@
    "Parallels"  :> <<"Parallels">>

\* the VM_DISK_VENDORS keys in the dict's insertion order
VM_DISK_VENDORS_keys == <<"QEMU/KVM", "VirtualBox", "VMware", "Parallels">>

SANDBOX_PROCS == <<"sandbox", "cuckoo", "vmsrvc", "vboxservice", "vmtoolsd",
                   "ollydbg", "x64dbg", "x32dbg", "wireshark", "procexp", "procmon">>

\* the strings of the tables above
CatalogStrings ==
    Range(platforms)
        \cup UNION {Range(VM_PCI_VENDORS[k]) : k \in DOMAIN VM_PCI_VENDORS}
        \cup UNION {Range(VM_PCI_DEVICES[k]) : k \in DOMAIN VM_PCI_DEVICES}
        \cup UNION {Range(MAC_PREFIXES[k]) : k \in DOMAIN MAC_PREFIXES}
        \cup {VM_CPUID_SIGS[k] : k \in DOMAIN VM_CPUID_SIGS}
        \cup UNION {Range(VM_SOFT_KEYWORDS[k].bios) \cup Range(VM_SOFT_KEYWORDS[k].process) :
                        k \in DOMAIN VM_SOFT_KEYWORDS}
        \cup UNION {Range(ACPI_SIGS[k]) : k \in DOMAIN ACPI_SIGS}
        \cup UNION {Range(VM_DISK_VENDORS[k]) : k \in DOMAIN VM_DISK_VENDORS}

\* s.upper() and s.lower() of the strings of the tables, computed once
UpperOfCatalog == [s \in CatalogStrings |-> MapChars(UpperTable, s)]
LowerOfCatalog == [s \in CatalogStrings |-> MapChars(LowerTable, s)]

\* s.upper(), s.lower()
Upper(s) == IF s \in CatalogStrings THEN UpperOfCatalog[s] ELSE MapChars(UpperTable, s)
Lower(s) == IF s \in CatalogStrings THEN LowerOfCatalog[s] ELSE MapChars(LowerTable, s)

---------------------------------------------------------------------------
(* Utilities *)

HexDigits == {"0", "1", "2", "3", "4", "5", "6", "7", "8", "9",
              "A", "B", "C", "D", "E", "F", "a", "b", "c", "d", "e", "f"}

\* re.sub(r"[^0-9A-Fa-f]", "", s)
RECURSIVE KeepHex(_)
KeepHex(s) ==
    IF s = "" THEN ""
    ELSE (IF SubSeq(s, 1, 1) \in HexDigits THEN SubSeq(s, 1, 1) ELSE "")
         \o KeepHex(SubSeq(s, 2, Len(s)))

\* s.rjust(n, "0")
RECURSIVE RJustZero(_, _)
RJustZero(s, n) == IF Len(s) >= n THEN s ELSE RJustZero("0" \o s, n)

\* a canonicalization that leaves a leading "0x" to the digit filter
_clean_hex_keeping_prefix(s) ==
    IF ~Truthy(s) THEN s
    ELSE LET s3 == Upper(KeepHex(Strip(s)))
         IN  IF s3 = "" THEN "" ELSE "0x" \o RJustZero(s3, 4)

_clean_hex(s) ==
    IF ~Truthy(s) THEN s
    ELSE LET s1 == Strip(s)
             s2 == IF StartsWith(Lower(s1), "0x") THEN SubSeq(s1, 3, Len(s1)) ELSE s1
             s3 == Upper(KeepHex(s2))
         IN  IF s3 = "" THEN "" ELSE "0x" \o RJustZero(s3, 4)

---------------------------------------------------------------------------
(* Artifact container *)

\* ArtifactCollection.__init__
ArtifactCollection == [
    cpu_vendor           |-> None,
    hypervisor_flag      |-> FALSE,
    pci_vendors          |-> <<>>,
    pci_devices          |-> <<>>,
    acpi_tables          |-> <<>>,
    acpi_signatures      |-> <<>>,
    cpuid_signature      |-> None,
    bios_vendor          |-> None,
    bios_brand           |-> None,
    system_product       |-> None,
    processes            |-> <<>>,
    mac_prefixes         |-> <<>>,
    disk_vendors         |-> <<>>,
    notes                |-> <<>>,
    interrupt_behavior   |-> EmptyDict,
    entropy_behavior     |-> EmptyDict,
    cpu_topology         |-> EmptyDict,
    cache_behavior       |-> EmptyDict,
    instruction_timing   |-> EmptyDict,
    memory_patterns      |-> EmptyDict,
    filesystem_artifacts |-> <<>>,
    hardware_quirks      |-> <<>>,
    network_latency      |-> EmptyDict,
    gpu_info             |-> EmptyDict,
    uptime               |-> EmptyDict ]

---------------------------------------------------------------------------
(* Gatherers.  h is the host: what each OS call, file read, directory      *)
(* listing and external utility returns during this run.  A number that    *)
(* Python may hold as None is 0 here where the code only tests its truth.  *)

\* the result of a failing call where the host gives a number
Fails == -1

gather_interrupt_behavior(a, h) ==
    [a EXCEPT !.interrupt_behavior =
        [samples |-> 1000, low_jitter |-> h.low_jitter]]

\* os.urandom has no handler around it
gather_entropy_behavior_raises(h) == h.urandom_raises

gather_entropy_behavior(a, h) ==
    [a EXCEPT !.entropy_behavior =
        [samples |-> 512, low_variance |-> h.low_variance]]

gather_cpu_topology(a, h) ==
    LET logical  == h.cpus.logical
        physical == IF h.psutil THEN h.cpus.physical ELSE 0
        topo     == [logical |-> logical, physical |-> physical]
    IN  [a EXCEPT !.cpu_topology =
            IF h.psutil /\ h.cpu_count_raises THEN EmptyDict
            ELSE IF physical # 0 /\ logical # 0
            THEN topo @@ [suspicious_ratio |-> logical > 4 * physical]
            ELSE topo]

gather_cpu_vendor(a, h) ==
    IF h.system = "Linux" THEN
        LET a1 == IF h.cpu.vendor_id # None
                  THEN [a EXCEPT !.cpu_vendor = Strip(h.cpu.vendor_id)] ELSE a
            a2 == IF h.cpu.hypervisor
                  THEN [a1 EXCEPT !.hypervisor_flag = TRUE] ELSE a1
        IN  IF h.cpuid # None /\ ~Truthy(a2.cpuid_signature)
            THEN [a2 EXCEPT !.cpuid_signature = Strip(h.cpuid)] ELSE a2
    ELSE IF h.system = "Windows" THEN
        LET a1 == IF h.cpu.vendor_id # None
                  THEN [a EXCEPT !.cpu_vendor = h.cpu.vendor_id] ELSE a
        IN  IF h.cpu.hypervisor
            THEN [a1 EXCEPT !.hypervisor_flag = TRUE] ELSE a1
    ELSE a

\* os.listdir("/sys/bus/pci/devices/") has no handler around it
gather_pci_raises(h) == h.system = "Linux" /\ h.pci.raises

\* the groups r"VEN_([0-9A-Fa-f]{4})" / r"DEV_([0-9A-Fa-f]{4})" capture in the
\* registry subkey names of the devices whose IDs are ids
ven_re(ids) ==
    LET digits(t) == Remove(Strip(t), "0x")
        hex4(d) == Len(d) >= 4 /\ \A i \in 1..4 : SubSeq(d, i, i) \in HexDigits
    IN  {SubSeq(digits(t), 1, 4) : t \in {u \in ids : hex4(digits(u))}}

gather_pci(a, h) ==
    LET sysfs(txts) == {"0x" \o Upper(Remove(Strip(t), "0x")) :
                          t \in {u \in txts : Upper(Remove(Strip(u), "0x")) # ""}}
        vendors ==
            IF h.system = "Linux"
            THEN sysfs(h.pci.vendor) \cup {"0x" \o Upper(m[1]) : m \in h.pci.lspci}
            ELSE IF h.system = "Windows" /\ h.winreg
            THEN {"0x" \o Upper(t) : t \in ven_re(h.pci.vendor)}
            ELSE {}
        devices ==
            IF h.system = "Linux"
            THEN sysfs(h.pci.device) \cup {"0x" \o Upper(m[2]) : m \in h.pci.lspci}
            ELSE IF h.system = "Windows" /\ h.winreg
            THEN {"0x" \o Upper(t) : t \in ven_re(h.pci.device)}
            ELSE {}
    IN  [a EXCEPT !.pci_vendors = Sorted(vendors), !.pci_devices = Sorted(devices)]

gather_acpi_tables(a, h) ==
    IF h.system = "Linux" /\ h.acpi.listing = "ok" THEN
        LET tables == {Strip(f) : f \in {g \in h.acpi.tables : g # ""}}
            hit(vm, t) == \E i \in 1..Len(ACPI_SIGS[vm]) :
                              StartsWith(Upper(t), Upper(ACPI_SIGS[vm][i]))
        IN  [a EXCEPT !.acpi_tables = Sorted(tables),
                      !.acpi_signatures =
                          Sorted({vm \o ":" \o t : <<vm, t>> \in
                              {p \in (DOMAIN ACPI_SIGS) \X tables : hit(p[1], p[2])}})]
    ELSE a

gather_cpuid_signature(a, h) ==
    IF h.system = "Linux" THEN
        IF h.cpuid # None THEN [a EXCEPT !.cpuid_signature = Strip(h.cpuid)] ELSE a
    ELSE IF h.system = "Windows" THEN
        IF Truthy(h.cpuid) THEN [a EXCEPT !.cpuid_signature = Strip(h.cpuid)] ELSE a
    ELSE a

\* the bios_brand chain at the end of gather_bios_system
bios_brand_of(vendor) ==
    IF ~Truthy(vendor) THEN None
    ELSE LET b == Lower(vendor)
         IN  IF Contains("virtualbox", b) \/ Contains("oracle", b) \/ Contains("innotek", b)
                 THEN "VirtualBox"
             ELSE IF Contains("vmware", b) THEN "VMware"
             ELSE IF Contains("qemu", b) \/ Contains("seabios", b) THEN "QEMU/KVM"
             ELSE IF Contains("microsoft", b) \/ Contains("hyper-v", b) THEN "Hyper-V"
             ELSE IF Contains("parallels", b) THEN "Parallels"
             ELSE IF Contains("xen", b) THEN "Xen"
             ELSE None

gather_bios_system(a, h) ==
    LET or(x, old) == IF x # "" THEN x ELSE old
        a1 == IF h.system = "Linux" /\ h.dmi.readable THEN
                  [a EXCEPT !.bios_vendor = or(Strip(h.dmi.manufacturer), a.bios_vendor),
                            !.system_product = or(Strip(h.dmi.product), a.system_product)]
              ELSE IF h.system = "Windows" THEN
                  [a EXCEPT !.bios_vendor = or(Strip(h.dmi.manufacturer), a.bios_vendor),
                            !.system_product = or(Strip(h.dmi.product), a.system_product)]
              ELSE a
    IN  [a1 EXCEPT !.bios_brand = bios_brand_of(a1.bios_vendor)]

gather_processes(a, h) ==
    [a EXCEPT !.processes = Sorted({Strip(n) : n \in {m \in h.processes : Strip(m) # ""}})]

gather_mac_prefixes(a, h) ==
    [a EXCEPT !.mac_prefixes = Sorted({Upper(m) : m \in h.macs})]

\* os.listdir("/sys/block/") and os.listdir("/dev/disk/by-id/") have no handler
gather_disk_vendors_raises(h) == h.system = "Linux" /\ h.disks.raises

gather_disk_vendors(a, h) ==
    LET byid == {e \in h.disks.by_id :
                    \E x \in {"qemu", "vbox", "vmware", "parallels"} : Contains(x, Lower(e))}
        vendors ==
            IF h.system = "Linux"
            THEN {Strip(v) : v \in {w \in h.disks.vendor : w # ""}} \cup byid
            ELSE IF h.system = "Windows"
            THEN {Strip(v) : v \in {w \in h.disks.vendor : Strip(w) # ""}}
            ELSE {}
    IN  [a EXCEPT !.disk_vendors = Sorted(vendors)]

gather_cpu_cache_behavior(a, h) ==
    [a EXCEPT !.cache_behavior = [suspicious |-> h.cache_suspicious]]

gather_instruction_timing(a, h) ==
    [a EXCEPT !.instruction_timing =
        [samples |-> 1000, too_consistent |-> h.too_consistent]]

\* memory in MiB: |total_gb - size| < 0.1 is |mib - 1024 * size| < 102.4
gather_memory_patterns(a, h) ==
    IF h.psutil /\ h.mem_mib > 0 THEN
        [a EXCEPT !.memory_patterns =
            [total_mib |-> h.mem_mib,
             exact_vm_size |-> \E size \in {2, 4, 8, 16, 32} :
                 h.mem_mib - 1024 * size <= 102 /\ 1024 * size - h.mem_mib <= 102]]
    ELSE a

gather_filesystem_artifacts(a, h) ==
    [a EXCEPT !.filesystem_artifacts = h.vm_paths]

gather_hardware_quirks(a, h) ==
    [a EXCEPT !.hardware_quirks = h.quirks]

\* range(10): the connect trials of gather_network_latency
Trials == 10

\* sum(timings), the timings in microseconds
SumTimings(timings) ==
    LET S[i \in 0..Len(timings)] == IF i = 0 THEN 0 ELSE S[i - 1] + timings[i]
    IN  S[Len(timings)]

\* the network_latency block made of the timings: avg_latency < 0.0001 s is
\* sum < 100 microseconds * len
network_latency_block(timings) ==
    [avg_us            |-> SumTimings(timings) \div Len(timings),
     suspiciously_fast |-> SumTimings(timings) < 100 * Len(timings)]

\* gather_network_latency on a host where no socket can be made, where every
\* connect is refused within 50 microseconds, or within 200
gather_network_latency(a, h) ==
    IF h.connect = "socket_fails" THEN a
    ELSE [a EXCEPT !.network_latency =
              network_latency_block([i \in 1..Trials |->
                                        IF h.connect = "fast" THEN 50 ELSE 200])]

gather_gpu_detection(a, h) ==
    LET vm_gpu_keywords == {"qxl", "vmsvga", "virtio", "vboxvideo", "cirrus"}
    IN  [a EXCEPT !.gpu_info =
            [adapters |-> h.gpus,
             vm_gpu |-> \E i \in 1..Len(h.gpus) :
                           \E kw \in vm_gpu_keywords : Contains(kw, Lower(h.gpus[i]))]]

\* uptime in minutes: uptime_hours < 1 is minutes < 60
gather_uptime_check(a, h) ==
    IF h.psutil /\ h.uptime_min # Fails THEN
        [a EXCEPT !.uptime =
            [minutes |-> h.uptime_min, suspiciously_recent |-> h.uptime_min < 60]]
    ELSE a

\* Detector._normalize
_normalize(a) ==
    LET truthy(xs) == {x \in Range(OrEmpty(xs)) : Truthy(x)}
    IN  [a EXCEPT
            !.pci_vendors     = Sorted({_clean_hex(x) : x \in truthy(a.pci_vendors)}),
            !.pci_devices     = Sorted({_clean_hex(x) : x \in truthy(a.pci_devices)}),
            !.mac_prefixes    = Sorted({Upper(m) : m \in truthy(a.mac_prefixes)}),
            !.processes       = Sorted(truthy(a.processes)),
            !.acpi_tables     = Sorted(truthy(a.acpi_tables)),
            !.acpi_signatures = Sorted(truthy(a.acpi_signatures)),
            !.disk_vendors    = Sorted(truthy(a.disk_vendors))]

\* the calls of Detector.gather_all, in order
Gatherers == <<"cpu_vendor", "pci", "acpi_tables", "cpuid_signature", "bios_system",
               "processes", "mac_prefixes", "disk_vendors", "interrupt_behavior",
               "entropy_behavior", "cpu_topology", "cpu_cache_behavior",
               "instruction_timing", "memory_patterns", "filesystem_artifacts",
               "hardware_quirks", "network_latency", "gpu_detection", "uptime_check">>

GathererRaises(g, h) ==
    CASE g = "pci"              -> gather_pci_raises(h)
      [] g = "disk_vendors"     -> gather_disk_vendors_raises(h)
      [] g = "entropy_behavior" -> gather_entropy_behavior_raises(h)
      [] OTHER                  -> FALSE

Gatherer(g, a, h) ==
    CASE g = "cpu_vendor"           -> gather_cpu_vendor(a, h)
      [] g = "pci"                  -> gather_pci(a, h)
      [] g = "acpi_tables"          -> gather_acpi_tables(a, h)
      [] g = "cpuid_signature"      -> gather_cpuid_signature(a, h)
      [] g = "bios_system"          -> gather_bios_system(a, h)
      [] g = "processes"            -> gather_processes(a, h)
      [] g = "mac_prefixes"         -> gather_mac_prefixes(a, h)
      [] g = "disk_vendors"         -> gather_disk_vendors(a, h)
      [] g = "interrupt_behavior"   -> gather_interrupt_behavior(a, h)
      [] g = "entropy_behavior"     -> gather_entropy_behavior(a, h)
      [] g = "cpu_topology"         -> gather_cpu_topology(a, h)
      [] g = "cpu_cache_behavior"   -> gather_cpu_cache_behavior(a, h)
      [] g = "instruction_timing"   -> gather_instruction_timing(a, h)
      [] g = "memory_patterns"      -> gather_memory_patterns(a, h)
      [] g = "filesystem_artifacts" -> gather_filesystem_artifacts(a, h)
      [] g = "hardware_quirks"      -> gather_hardware_quirks(a, h)
      [] g = "network_latency"      -> gather_network_latency(a, h)
      [] g = "gpu_detection"        -> gather_gpu_detection(a, h)
      [] g = "uptime_check"         -> gather_uptime_check(a, h)

\* Detector.gather_all on self.art = a: the collection it leaves in self.art and
\* whether an exception left it (the gatherers after the raising one do not run)
RECURSIVE gather_from(_, _, _)
gather_from(i, a, h) ==
    IF i > Len(Gatherers) THEN [art |-> _normalize(a), raised |-> FALSE]
    ELSE IF GathererRaises(Gatherers[i], h) THEN [art |-> a, raised |-> TRUE]
    ELSE gather_from(i + 1, Gatherer(Gatherers[i], a, h), h)

gather_all(a, h) == gather_from(1, a, h)

---------------------------------------------------------------------------
(* Behavioural signals *)

\* the concatenation of F(x) for x in xs, in order (nested for loops that append)
ConcatMap(xs, F(_)) ==
    LET C[i \in 0..Len(xs)] == IF i = 0 THEN <<>> ELSE C[i - 1] \o F(xs[i])
    IN  C[Len(xs)]

\* <<x>> if c, else nothing: 'if c: out.append(x)'
When(c, x) == IF c THEN <<x>> ELSE <<>>

\* the text of a natural number n in an f-string
RECURSIVE IntStr(_)
IntStr(n) ==
    IF n < 10 THEN SubSeq("0123456789", n + 1, n + 1)
    ELSE IntStr(n \div 10) \o SubSeq("0123456789", (n % 10) + 1, (n % 10) + 1)

\* 1 if c else 0: 'if c: n += 1'
One(c) == IF c THEN 1 ELSE 0

\* enhanced_behavior_scoring: the strings it appends to behavior_signals
enhanced_behavior_signals(a) ==
    LET quirk(q) == When(q # "no_battery_detected", "Hardware quirk: " \o q)
    IN  When(Get(a.cache_behavior, "suspicious"), "Cache timing patterns suggest VM")
     \o When(Get(a.instruction_timing, "too_consistent"),
             "Instruction timing too consistent (VM-like)")
     \o When(Get(a.memory_patterns, "exact_vm_size"),
             "Memory size matches common VM default")
     \o When(a.filesystem_artifacts # <<>>,
             "VM filesystem artifacts: " \o IntStr(Len(a.filesystem_artifacts)) \o " found")
     \o ConcatMap(a.hardware_quirks, quirk)
     \o When(Get(a.network_latency, "suspiciously_fast"),
             "Network latency suspiciously fast")
     \o When(Get(a.gpu_info, "vm_gpu"), "Virtualized GPU detected")
     \o When(Get(a.uptime, "suspiciously_recent"), "System uptime very recent")

\* a count that takes every hardware quirk, the missing battery included
enhanced_behavior_scoring_counting_battery(a) ==
      One(Get(a.cache_behavior, "suspicious"))
    + One(Get(a.instruction_timing, "too_consistent"))
    + One(Get(a.memory_patterns, "exact_vm_size"))
    + One(a.filesystem_artifacts # <<>>)
    + Len(a.hardware_quirks)
    + One(Get(a.network_latency, "suspiciously_fast"))
    + One(Get(a.gpu_info, "vm_gpu"))
    + One(Get(a.uptime, "suspiciously_recent"))

\* enhanced_behavior_scoring: additional_signals, the number it returns
enhanced_behavior_scoring(a) ==
      One(Get(a.cache_behavior, "suspicious"))
    + One(Get(a.instruction_timing, "too_consistent"))
    + One(Get(a.memory_patterns, "exact_vm_size"))
    + One(a.filesystem_artifacts # <<>>)
    + Count(a.hardware_quirks, LAMBDA q : q # "no_battery_detected")
    + One(Get(a.network_latency, "suspiciously_fast"))
    + One(Get(a.gpu_info, "vm_gpu"))
    + One(Get(a.uptime, "suspiciously_recent"))

---------------------------------------------------------------------------
(* Sandbox / anti-analysis *)

\* the ACPI anomaly rule of sandbox_checks
missing_acpi_for_vm_product(a) ==
    /\ Truthy(a.system_product)
    /\ \E x \in {"virtualbox", "vmware", "qemu", "kvm", "xen", "hyper-v", "parallels"} :
           Contains(x, Lower(a.system_product))
    /\ OrEmpty(a.acpi_signatures) = <<>> /\ OrEmpty(a.acpi_tables) = <<>>

\* a decision that counts the heuristics only
sandbox_detected_heuristics_only(out) ==
    out.debugger \/ out.timing_anomaly \/ Len(out.heuristics) >= 2

\* a decision that a single entry is enough for
sandbox_detected_by_one_entry(out) ==
    LET hits == Len(out.heuristics) + Len(out.process_hits) + Len(out.env_hits)
                + Len(out.disk_hits) + Len(out.system_hits)
    IN  out.debugger \/ out.timing_anomaly \/ hits >= 1

\* the final decision of sandbox_checks
sandbox_detected(out) ==
    LET hits == Len(out.heuristics) + Len(out.process_hits) + Len(out.env_hits)
                + Len(out.disk_hits) + Len(out.system_hits)
    IN  out.debugger \/ out.timing_anomaly \/ hits >= 2

sandbox_report(a, h, process_hits, env_hits, name_hits, disk_hits, acpi) ==
    LET \* memory in MiB: mem < 1_000_000_000 bytes is mib <= 953; the psutil calls
        \* both come before the first append, inside one try
        psutil_ok == h.mem_mib # Fails /\ ~h.cpu_count_raises
        cpus == IF h.psutil /\ h.cpus.physical # 0 THEN h.cpus.physical ELSE h.cpus.logical
        low_memory == h.psutil /\ psutil_ok /\ h.mem_mib # 0 /\ h.mem_mib <= 953
        single_cpu == (h.psutil => psutil_ok) /\ cpus # 0 /\ cpus <= 1
        debugger == h.debugger
        timing_anomaly == h.sleep_ms < 130
        decided(out) == out @@ [detected |-> sandbox_detected(out)]
    IN  decided([
            heuristics |->
                ConcatMap(process_hits, LAMBDA p : <<"sandbox process: " \o p>>)
             \o ConcatMap(env_hits, LAMBDA k : <<"env var looks sandboxy: " \o k>>)
             \o ConcatMap(name_hits, LAMBDA n : <<n.why>>)
             \o ConcatMap(disk_hits, LAMBDA d :
                    <<"disk vendor '" \o d.vendor \o "' indicates " \o d.vm>>)
             \o When(acpi, "system product suggests VM but ACPI signatures missing")
             \o When(low_memory, "low memory")
             \o When(single_cpu, "single CPU")
             \o When(debugger, "debugger attached")
             \o When(timing_anomaly, "sleep timing anomaly"),
            process_hits   |-> process_hits,
            env_hits       |-> env_hits,
            disk_hits      |-> disk_hits,
            system_hits    |-> ConcatMap(name_hits, LAMBDA n : <<n.hit>>)
                               \o When(acpi, "missing_acpi_for_vm_product"),
            debugger       |-> debugger,
            timing_anomaly |-> timing_anomaly ])

sandbox_checks(a, h) ==
    LET proc(p) ==
            LET matching(pl) ==
                    ConcatMap(SANDBOX_PROCS, LAMBDA sig : When(Contains(sig, pl), p))
            IN  matching(Lower(p))
        sandboxy(k) == \E s \in {"VBOX", "VIRTUALBOX", "VMWARE", "CUCKOO", "SANDBOX", "QEMU"} :
                           Contains(s, Upper(k))
        bads == <<"sandbox", "analysis", "maltest", "cuckoo", "vm", "test">>
        names(user, hostname) ==
            ConcatMap(bads, LAMBDA bad :
                   When(Contains(bad, user), [hit |-> "user=" \o user,
                                              why |-> "suspicious username: " \o user])
                \o When(Contains(bad, hostname), [hit |-> "host=" \o hostname,
                                                  why |-> "suspicious hostname: " \o hostname]))
        disk(dv) ==
            LET matching(dvl) ==
                    ConcatMap(VM_DISK_VENDORS_keys, LAMBDA vm :
                        ConcatMap(VM_DISK_VENDORS[vm], LAMBDA sub :
                            When(Contains(Lower(sub), dvl), [vendor |-> dv, vm |-> vm])))
            IN  matching(Lower(dv))
    IN  sandbox_report(a, h,
            ConcatMap(OrEmpty(a.processes), proc),
            Filter(h.environ, sandboxy),
            IF h.getuser_raises THEN <<>> ELSE names(Lower(h.user), Lower(h.hostname)),
            ConcatMap(OrEmpty(a.disk_vendors), disk),
            missing_acpi_for_vm_product(a))

---------------------------------------------------------------------------
(* Detector scoring *)

\* a rule that runs whatever the platform
strong_product_on_any_platform(a, system) ==
    IF Truthy(a.system_product) THEN
        LET mfg == Lower(a.system_product)
        IN  IF Contains("qemu", mfg) \/ Contains("kvm", mfg) THEN "QEMU/KVM"
            ELSE IF Contains("vmware", mfg) THEN "VMware"
            ELSE IF Contains("virtualbox", mfg) THEN "VirtualBox"
            ELSE IF Contains("microsoft", mfg) THEN "Hyper-V"
            ELSE None
    ELSE None

\* the product the Windows system-product rule of score adds 50 to, or None
strong_product(a, system) ==
    IF system = "Windows" /\ Truthy(a.system_product) THEN
        LET mfg == Lower(a.system_product)
        IN  IF Contains("qemu", mfg) \/ Contains("kvm", mfg) THEN "QEMU/KVM"
            ELSE IF Contains("vmware", mfg) THEN "VMware"
            ELSE IF Contains("virtualbox", mfg) THEN "VirtualBox"
            ELSE IF Contains("microsoft", mfg) THEN "Hyper-V"
            ELSE None
    ELSE None

\* what the rules of score add to scores[vm] and append to explain_map[vm], in
\* the order score evaluates them
contributions(a, vm, system) ==
    LET pci_vendors == OrEmpty(a.pci_vendors)
        pci_devices == OrEmpty(a.pci_devices)
        vendors_upper == {Upper(v) : v \in Range(pci_vendors)}
        devices_upper == {Upper(d) : d \in Range(pci_devices)}
        macs_upper == {Upper(m) : m \in Range(OrEmpty(a.mac_prefixes))}
        in_table == vm \in DOMAIN VM_PCI_SIGNATURES
        hard(vid) == When(Upper(vid) \in vendors_upper,
                          [pts |-> 60, why |-> "PCI vendor " \o vid])
        exp_vendor(v) == When(in_table /\ Upper(Remove(v, "0x")) \in VM_PCI_SIGNATURES[vm].vendors,
                              [pts |-> 30, why |-> "Expanded vendor " \o v])
        exp_device(d) == When(in_table /\ Upper(Remove(d, "0x")) \in VM_PCI_SIGNATURES[vm].devices,
                              [pts |-> 20, why |-> "Expanded device " \o d])
        legacy(did) == When(Upper(did) \in devices_upper,
                            [pts |-> 20, why |-> "Legacy device " \o did])
        cpuid == When(/\ Truthy(a.cpuid_signature)
                      /\ vm \in DOMAIN VM_CPUID_SIGS
                      /\ Contains(Lower(VM_CPUID_SIGS[vm]), Lower(a.cpuid_signature)),
                      [pts |-> 40, why |-> "CPUID '" \o Lookup(VM_CPUID_SIGS, vm) \o "'"])
        acpi(sig) == When(Contains(SplitHead(Lower(vm), "/"), Lower(sig)),
                          [pts |-> 15, why |-> "ACPI sig " \o sig])
        soft == IF vm \in DOMAIN VM_SOFT_KEYWORDS THEN VM_SOFT_KEYWORDS[vm]
                ELSE [bios |-> <<>>, process |-> <<>>]
        bios(kw) == When(Truthy(a.bios_vendor) /\ Contains(Lower(kw), Lower(a.bios_vendor)),
                         [pts |-> 20, why |-> "BIOS contains '" \o kw \o "'"])
        brand == When(Truthy(a.bios_brand) /\ a.bios_brand = vm,
                      [pts |-> 25, why |-> "Normalized BIOS brand"])
        process(pk) == When(\E p \in Range(a.processes) : Contains(Lower(pk), Lower(p)),
                            [pts |-> 15, why |-> "Process '" \o pk \o "' present"])
        mac == When(\E pref \in Range(Lookup(MAC_PREFIXES, vm)) : Upper(pref) \in macs_upper,
                    [pts |-> 10, why |-> "MAC prefix match"])
        disk(dv) == ConcatMap(Lookup(VM_DISK_VENDORS, vm), LAMBDA sub :
                        When(Contains(Lower(sub), Lower(dv)),
                             [pts |-> 15, why |-> "Disk vendor '" \o dv \o "'"]))
        hv == When(a.hypervisor_flag, [pts |-> 10, why |-> "Hypervisor flag present"])
        strong == When(strong_product(a, system) = vm,
                       [pts |-> 50,
                        why |-> "System -> " \o (IF vm = "Hyper-V" THEN "Microsoft/Hyper-V"
                                                 ELSE vm)])
    IN  ConcatMap(Lookup(VM_PCI_VENDORS, vm), hard)
     \o ConcatMap(pci_vendors, exp_vendor)
     \o ConcatMap(pci_devices, exp_device)
     \o ConcatMap(Lookup(VM_PCI_DEVICES, vm), legacy)
     \o cpuid
     \o ConcatMap(OrEmpty(a.acpi_signatures), acpi)
     \o ConcatMap(soft.bios, bios)
     \o brand
     \o ConcatMap(soft.process, process)
     \o mac
     \o ConcatMap(OrEmpty(a.disk_vendors), disk)
     \o hv
     \o strong

\* the sum of the pts of a list of contributions
SumPts(cs) ==
    LET S[i \in 0..Len(cs)] == IF i = 0 THEN 0 ELSE S[i - 1] + cs[i].pts
    IN  S[Len(cs)]

\* a cap that saturates one point early
cap_at_99(n) == Max(0, Min(99, n))

\* a cap that wraps around instead of saturating
cap_wrapping(n) == n % 101

\* a cap that forgets the upper end
cap_without_min(n) == Max(0, n)

\* '# Cap': scores[k] = max(0, min(100, int(scores[k])))
cap(n) == Max(0, Min(100, n))

\* a penalty that forgets the floor
penalize_without_floor(n) == n - 30

\* the sandbox penalty: scores[k] = max(0, scores[k] - 30)
penalize(n) == Max(0, n - 30)

\* 'if sandbox: if sandbox.get("detected")'; no report (None) is EmptyDict
penalty_applies(sandbox) == sandbox # EmptyDict /\ Get(sandbox, "detected")

\* a score whose penalty comes before the cap
final_score_penalty_before_cap(a, vm, sandbox, system) ==
    LET raw == SumPts(contributions(a, vm, system))
    IN  IF penalty_applies(sandbox) THEN cap(penalize(raw)) ELSE cap(raw)

\* scores[vm] at the return of score
final_score(a, vm, sandbox, system) ==
    LET capped == cap(SumPts(contributions(a, vm, system)))
    IN  IF penalty_applies(sandbox) THEN penalize(capped) ELSE capped

\* explain_map[vm] at the return of score
explain_entry(a, vm, sandbox, system) ==
    ConcatMap(contributions(a, vm, system), LAMBDA c : <<c.why>>)
     \o When(penalty_applies(sandbox), "Sandbox heuristics detected -> -30 penalty")
     \o When("process_hits" \in DOMAIN sandbox /\ sandbox.process_hits # <<>>,
             "sandbox process hits: "
                 \o IntStr(IF "process_hits" \in DOMAIN sandbox
                           THEN Len(sandbox.process_hits) ELSE 0))
     \o When(sandbox # EmptyDict /\ Get(sandbox, "timing_anomaly"), "timing anomaly")

\* 'for p in art.processes' (the Processes rule) iterates None
score_raises(a) == a.processes = NoneList

\* Detector.score(art, sandbox, explain), on a host whose platform.system() is system
score(a, sandbox, explain, system) ==
    IF score_raises(a) THEN [raised |-> TRUE]
    ELSE LET keys == Range(platforms)
             scores == [vm \in keys |-> final_score(a, vm, sandbox, system)]
         IN  IF explain
             THEN [raised |-> FALSE, scores |-> scores,
                   explain |-> [vm \in keys |-> explain_entry(a, vm, sandbox, system)]]
             ELSE [raised |-> FALSE, scores |-> scores]

\* a choice that takes the first key whatever it holds
best_vm_of_first_key(scores) == platforms[1]

\* a choice that takes the last key holding the maximum
best_vm_of_last_max(scores) ==
    LET i == CHOOSE j \in 1..Len(platforms) :
                 /\ \A k \in 1..Len(platforms) : scores[platforms[k]] <= scores[platforms[j]]
                 /\ \A k \in (j + 1)..Len(platforms) :
                        scores[platforms[k]] < scores[platforms[j]]
    IN  platforms[i]

\* max(scores, key=lambda k: scores[k]): the first key, in the dict's order, that
\* holds the maximum
best_vm_of(scores) ==
    LET i == CHOOSE j \in 1..Len(platforms) :
                 /\ \A k \in 1..Len(platforms) : scores[platforms[k]] <= scores[platforms[j]]
                 /\ \A k \in 1..(j - 1) : scores[platforms[k]] < scores[platforms[j]]
    IN  platforms[i]

\* a chain whose first test forgets the signal count
classify_by_score_only(best_score, hardened_signals) ==
    IF best_score < 40 THEN "Hardened VM"
    ELSE IF best_score >= 80 THEN "Detected VM"
    ELSE "Likely VM"

\* a chain whose first test forgets the score
classify_by_signals_first(best_score, hardened_signals) ==
    IF hardened_signals >= 2 THEN "Hardened VM"
    ELSE IF best_score >= 80 THEN "Detected VM"
    ELSE IF 40 <= best_score /\ best_score < 80 THEN "Likely VM"
    ELSE "Unknown/Bare Metal"

\* the if/elif chain at the end of detect
classify(best_score, hardened_signals) ==
    IF best_score < 40 /\ hardened_signals >= 2 THEN "Hardened VM"
    ELSE IF best_score >= 80 THEN "Detected VM"
    ELSE IF 40 <= best_score /\ best_score < 80 THEN "Likely VM"
    ELSE "Unknown/Bare Metal"

\* the strings detect itself appends to behavior_signals, before
\* enhanced_behavior_scoring
detect_signals(a) ==
       When(Get(a.interrupt_behavior, "low_jitter"), "Low interrupt jitter suggests VM")
    \o When(Get(a.entropy_behavior, "low_variance"), "Low entropy variance suggests VM")
    \o When(Get(a.cpu_topology, "suspicious_ratio"),
            "CPU topology ratio suspicious (logical / physical > 4)")

\* hardened_signals at the classifier of detect
hardened_signals_of(a) ==
      One(Get(a.interrupt_behavior, "low_jitter"))
    + One(Get(a.entropy_behavior, "low_variance"))
    + One(Get(a.cpu_topology, "suspicious_ratio"))
    + enhanced_behavior_scoring(a)

\* a result that carries aggressive_exit whenever the sandbox is detected
detect_result_always_aggressive(a, sandbox, sc, h) ==
    LET classified(best_vm, behavior_signals) ==
            [artifacts      |-> a,
             scores         |-> sc.scores,
             best_guess     |-> IF sc.scores[best_vm] >= 20 THEN best_vm ELSE "Unknown",
             confidence     |-> sc.scores[best_vm],
             anti_analysis  |-> sandbox,
             classification |-> classify(sc.scores[best_vm], hardened_signals_of(a))]
            @@ (IF h.explain THEN [explain |-> sc.explain] ELSE EmptyDict)
            @@ (IF sandbox.detected THEN [aggressive_exit |-> TRUE] ELSE EmptyDict)
            @@ (IF behavior_signals # <<>>
                THEN [behavior_signals |-> behavior_signals] ELSE EmptyDict)
    IN  classified(best_vm_of(sc.scores), detect_signals(a) \o enhanced_behavior_signals(a))

\* the rest of detect once gather_all has left the collection a, sandbox_checks
\* has returned sandbox and score has returned sc
detect_result(a, sandbox, sc, h) ==
    LET classified(best_vm, behavior_signals) ==
            [artifacts      |-> a,
             scores         |-> sc.scores,
             best_guess     |-> IF sc.scores[best_vm] >= 20 THEN best_vm ELSE "Unknown",
             confidence     |-> sc.scores[best_vm],
             anti_analysis  |-> sandbox,
             classification |-> classify(sc.scores[best_vm], hardened_signals_of(a))]
            @@ (IF h.explain THEN [explain |-> sc.explain] ELSE EmptyDict)
            @@ (IF h.aggressive_sandbox /\ sandbox.detected
                THEN [aggressive_exit |-> TRUE] ELSE EmptyDict)
            @@ (IF behavior_signals # <<>>
                THEN [behavior_signals |-> behavior_signals] ELSE EmptyDict)
    IN  classified(best_vm_of(sc.scores), detect_signals(a) \o enhanced_behavior_signals(a))

\* Detector.detect(explain, aggressive_sandbox) on a Detector whose self.art is a0:
\* the collection left in self.art, whether an exception left detect, and the
\* result with the hardened_signals the classifier used
detect(a0, h) ==
    LET scored(a, sandbox) ==
            LET returned(sc) ==
                    IF sc.raised THEN [art |-> a, raised |-> TRUE]
                    ELSE [art |-> a, raised |-> FALSE,
                          result |-> detect_result(a, sandbox, sc, h),
                          hardened_signals |-> hardened_signals_of(a)]
            IN  returned(score(a, sandbox, h.explain, h.system))
        gathered(g) ==
            IF g.raised THEN [art |-> g.art, raised |-> TRUE]
            ELSE scored(g.art, sandbox_checks(g.art, h))
    IN  gathered(gather_all(a0, h))

---------------------------------------------------------------------------
(* Hosts *)

\* a Linux host on which every probe comes back absent, empty or unremarkable,
\* and a detect call with its default flags
AbsentHost == [
    system             |-> "Linux",
    explain            |-> FALSE,
    aggressive_sandbox |-> FALSE,
    psutil             |-> TRUE,
    winreg             |-> TRUE,
    cpu                |-> [vendor_id |-> None, hypervisor |-> FALSE],
    cpuid              |-> None,
    pci                |-> [raises |-> FALSE, vendor |-> {}, device |-> {}, lspci |-> {}],
    acpi               |-> [listing |-> "missing", tables |-> {}],
    dmi                |-> [readable |-> TRUE, manufacturer |-> "", product |-> ""],
    processes          |-> {},
    macs               |-> {},
    disks              |-> [raises |-> FALSE, vendor |-> {}, by_id |-> {}],
    low_jitter         |-> FALSE,
    urandom_raises     |-> FALSE,
    low_variance       |-> FALSE,
    cpus               |-> [logical |-> 0, physical |-> 0],
    cpu_count_raises   |-> FALSE,
    cache_suspicious   |-> FALSE,
    too_consistent     |-> FALSE,
    mem_mib            |-> Fails,
    vm_paths           |-> <<>>,
    quirks             |-> <<>>,
    connect            |-> "socket_fails",
    gpus               |-> <<>>,
    uptime_min         |-> Fails,
    environ            |-> <<>>,
    user               |-> "",
    hostname           |-> "",
    getuser_raises     |-> TRUE,
    debugger           |-> FALSE,
    sleep_ms           |-> 150 ]

\* the single things a host may show, or a caller may ask for
Findings == <<
    "windows", "explain", "aggressive",
    "cpu_intel", "hypervisor", "cpuid_vmware", "cpuid_kvm",
    "pci_raises", "pci_vmware", "pci_vbox", "pci_intel", "pci_long", "pci_unknown", "dev_0001", "dev_vmware",
    "acpi_dsdt", "acpi_xen",
    "bios_vmware", "bios_dell", "product_vmware", "product_optiplex",
    "product_virtualbox", "product_microsoft", "product_several",
    "proc_vboxservice", "proc_wireshark", "proc_bash",
    "mac_vmware", "disk_vmware", "disk_raises",
    "low_jitter", "urandom_raises", "low_variance", "cpus_16_2", "exact_memory",
    "low_memory", "single_cpu",
    "quirk_no_battery", "quirk_serial", "uptime_recent",
    "env_vbox", "user_alice", "debugger", "sleep_skipped" >>

Finding(f, h) ==
    CASE f = "windows"          -> [h EXCEPT !.system = "Windows"]
      [] f = "explain"          -> [h EXCEPT !.explain = TRUE]
      [] f = "aggressive"       -> [h EXCEPT !.aggressive_sandbox = TRUE]
      [] f = "cpu_intel"        -> [h EXCEPT !.cpu.vendor_id = "GenuineIntel"]
      [] f = "hypervisor"       -> [h EXCEPT !.cpu.hypervisor = TRUE]
      [] f = "cpuid_vmware"     -> [h EXCEPT !.cpuid = "VMwareVMware"]
      [] f = "cpuid_kvm"        -> [h EXCEPT !.cpuid = "KVM"]
      [] f = "pci_raises"       -> [h EXCEPT !.pci.raises = TRUE]
      [] f = "pci_vmware"       -> [h EXCEPT !.pci.vendor = @ \cup {"0x15ad"}]
      [] f = "pci_vbox"         -> [h EXCEPT !.pci.vendor = @ \cup {"0x80ee"}]
      [] f = "pci_intel"        -> [h EXCEPT !.pci.vendor = @ \cup {"0x8086"}]
      [] f = "pci_long"         -> [h EXCEPT !.pci.vendor = @ \cup {"0x12345"}]
      [] f = "pci_unknown"      -> [h EXCEPT !.pci.vendor = @ \cup {"unknown"}]
      [] f = "dev_0001"         -> [h EXCEPT !.pci.device = @ \cup {"0x0001"}]
      [] f = "dev_vmware"       -> [h EXCEPT !.pci.device = @ \cup {"0x07b0"}]
      [] f = "acpi_dsdt"        -> [h EXCEPT !.acpi.listing = "ok",
                                             !.acpi.tables = @ \cup {"DSDT"}]
      [] f = "acpi_xen"         -> [h EXCEPT !.acpi.listing = "ok",
                                             !.acpi.tables = @ \cup {"XEN_TAB"}]
      [] f = "bios_vmware"      -> [h EXCEPT !.dmi.manufacturer = "VMware, Inc."]
      [] f = "bios_dell"        -> [h EXCEPT !.dmi.manufacturer = "Dell Inc."]
      [] f = "product_vmware"   -> [h EXCEPT !.dmi.product = "VMware Virtual Platform"]
      [] f = "product_optiplex" -> [h EXCEPT !.dmi.product = "OptiPlex 7090"]
      [] f = "product_virtualbox" -> [h EXCEPT !.dmi.product = "VirtualBox"]
      [] f = "product_microsoft" -> [h EXCEPT !.dmi.product = "Microsoft Virtual Machine"]
      [] f = "product_several"  -> [h EXCEPT !.dmi.product = "VMware VirtualBox KVM"]
      [] f = "proc_vboxservice" -> [h EXCEPT !.processes = @ \cup {"vboxservice"}]
      [] f = "proc_wireshark"   -> [h EXCEPT !.processes = @ \cup {"wireshark"}]
      [] f = "proc_bash"        -> [h EXCEPT !.processes = @ \cup {"bash"}]
      [] f = "mac_vmware"       -> [h EXCEPT !.macs = @ \cup {"00:0c:29"}]
      [] f = "disk_vmware"      -> [h EXCEPT !.disks.vendor = @ \cup {"VMware  "}]
      [] f = "disk_raises"      -> [h EXCEPT !.disks.raises = TRUE]
      [] f = "low_jitter"       -> [h EXCEPT !.low_jitter = TRUE]
      [] f = "urandom_raises"   -> [h EXCEPT !.urandom_raises = TRUE]
      [] f = "low_variance"     -> [h EXCEPT !.low_variance = TRUE]
      [] f = "cpus_16_2"        -> [h EXCEPT !.cpus = [logical |-> 16, physical |-> 2]]
      [] f = "exact_memory"     -> [h EXCEPT !.mem_mib = 4096]
      [] f = "low_memory"       -> [h EXCEPT !.mem_mib = 512]
      [] f = "single_cpu"       -> [h EXCEPT !.cpus = [logical |-> 1, physical |-> 1],
                                             !.mem_mib = IF @ = Fails THEN 8192 ELSE @]
      [] f = "quirk_no_battery" -> [h EXCEPT !.quirks = <<"no_battery_detected">> \o @]
      [] f = "quirk_serial"     -> [h EXCEPT !.quirks = @ \o <<"dummy_serial_number">>]
      [] f = "uptime_recent"    -> [h EXCEPT !.uptime_min = 30]
      [] f = "env_vbox"         -> [h EXCEPT !.environ = <<"PATH", "VBOX_INSTALL_PATH">>]
      [] f = "user_alice"       -> [h EXCEPT !.getuser_raises = FALSE,
                                             !.user = "alice", !.hostname = "workstation"]
      [] f = "debugger"         -> [h EXCEPT !.debugger = TRUE]
      [] f = "sleep_skipped"    -> [h EXCEPT !.sleep_ms = 100]

\* the subsets of U with at most n elements
RECURSIVE Subsets(_, _)
Subsets(U, n) ==
    IF n = 0 THEN {{}}
    ELSE LET P == Subsets(U, n - 1)
         IN  P \cup {S \cup {x} : S \in P, x \in U}

\* AbsentHost with the findings of F, applied in the order of Findings
HostWith(F) ==
    LET A[i \in 0..Len(Findings)] ==
            IF i = 0 THEN AbsentHost
            ELSE IF Findings[i] \in F THEN Finding(Findings[i], A[i - 1]) ELSE A[i - 1]
    IN  A[Len(Findings)]

\* the hosts with at most n findings
Hosts(n) == {HostWith(F) : F \in Subsets(Range(Findings), n)}

---------------------------------------------------------------------------
(* The Detector: detect calls on one Detector object *)

\* the findings of a host in a run of the Detector's life
MaxRunFindings == 1
\* the detect calls made on one Detector
MaxRuns == 2
\* the findings of the host of a single detect call
MaxFindings == 3

NoResult == EmptyDict
NoCall == EmptyDict

\* Detector.__init__, and the host of the first run
Init ==
    /\ host \in Hosts(MaxRunFindings)
    /\ art = ArtifactCollection
    /\ res = NoResult
    /\ runs = 0
    /\ pc = "ready"
    /\ call = NoCall

\* Detector.detect
Detect ==
    /\ pc = "ready"
    /\ LET returns(d) ==
               /\ art' = d.art
               /\ res' = IF d.raised THEN [raised |-> TRUE]
                         ELSE [raised |-> FALSE, result |-> d.result,
                               hardened_signals |-> d.hardened_signals]
               /\ pc' = IF d.raised THEN "raised" ELSE "done"
       IN  returns(detect(art, host))
    /\ runs' = runs + 1
    /\ UNCHANGED <<host, call>>

\* the caller makes another detect call on the same Detector, on a host that
\* may have changed
NextRun ==
    /\ pc \in {"done", "raised"}
    /\ runs < MaxRuns
    /\ host' \in Hosts(MaxRunFindings)
    /\ pc' = "ready"
    /\ UNCHANGED <<art, res, runs, call>>

Next == Detect \/ NextRun

Spec == Init /\ [][Next]_vars

\* one detect call on a new Detector
InitDetect ==
    /\ host \in Hosts(MaxFindings)
    /\ art = ArtifactCollection
    /\ res = NoResult
    /\ runs = 0
    /\ pc = "ready"
    /\ call = NoCall

SpecDetect == InitDetect /\ [][Detect]_vars

---------------------------------------------------------------------------
(* Direct calls of Detector.score and sandbox_checks *)

\* the fields of an ArtifactCollection a caller may leave as None
OptionalStrFields == {"cpu_vendor", "cpuid_signature", "bios_vendor", "bios_brand",
                      "system_product"}
OptionalListFields == {"pci_vendors", "pci_devices", "acpi_tables", "acpi_signatures",
                       "processes", "mac_prefixes", "disk_vendors"}

\* the collection a with the fields of N set to None
WithNone(a, N) ==
    [f \in DOMAIN a |->
        IF f \in N \cap OptionalStrFields THEN None
        ELSE IF f \in N \cap OptionalListFields THEN NoneList
        ELSE a[f]]

\* the findings of the host plus the None fields of the collection of a direct call
MaxApiInputs == 2

\* the Sandbox Report arguments of a direct score call: none, the report of
\* sandbox_checks on the same collection, a report made under a debugger
SandboxArgs == {"none", "own", "debugger"}

SandboxArg(k, a, h) ==
    CASE k = "none"     -> EmptyDict
      [] k = "own"      -> sandbox_checks(a, h)
      [] k = "debugger" -> sandbox_checks(ArtifactCollection, HostWith({"debugger"}))

\* the tables of the module, as a call finds them
Catalog ==
    [VM_PCI_VENDORS |-> VM_PCI_VENDORS, VM_PCI_DEVICES |-> VM_PCI_DEVICES,
     VM_PCI_SIGNATURES |-> VM_PCI_SIGNATURES, MAC_PREFIXES |-> MAC_PREFIXES,
     VM_CPUID_SIGS |-> VM_CPUID_SIGS, VM_SOFT_KEYWORDS |-> VM_SOFT_KEYWORDS,
     ACPI_SIGS |-> ACPI_SIGS, VM_DISK_VENDORS |-> VM_DISK_VENDORS,
     SANDBOX_PROCS |-> SANDBOX_PROCS]

\* a caller holds a collection (what gather_all gives on this host, with some
\* fields None) and is about to call score or sandbox_checks on it
InitApi ==
    /\ \E X \in Subsets(Range(Findings) \cup OptionalStrFields \cup OptionalListFields,
                        MaxApiInputs) :
         LET holding(h, g) ==
                 LET calling(a) ==
                         \E op \in {"score", "sandbox_checks"}, k \in SandboxArgs :
                             /\ op = "sandbox_checks" => k = "none"
                             /\ call = [op |-> op, state |-> "pending", art |-> a,
                                        sandbox |-> SandboxArg(k, a, h),
                                        catalog |-> Catalog, ret |-> EmptyDict]
                 IN  /\ ~g.raised
                     /\ host = h
                     /\ calling(WithNone(g.art, X))
             on(h) == holding(h, gather_all(ArtifactCollection, h))
         IN  on(HostWith(X \cap Range(Findings)))
    /\ art = ArtifactCollection
    /\ res = NoResult
    /\ runs = 0
    /\ pc = "api"

\* a score that normalizes the collection it is given before reading it
Score_normalizing ==
    /\ call # NoCall /\ call.op = "score" /\ call.state = "pending"
    /\ LET returns(a, r) ==
               call' = [call EXCEPT !.state = IF r.raised THEN "raised" ELSE "returned",
                                    !.art = a, !.ret = r]
           reads(a) == returns(a, score(a, call.sandbox, host.explain, host.system))
       IN  reads(_normalize(call.art))
    /\ UNCHANGED <<host, art, res, runs, pc>>

\* Detector.score(call.art, call.sandbox, host.explain)
Score ==
    /\ call # NoCall /\ call.op = "score" /\ call.state = "pending"
    /\ LET returns(r) ==
               call' = [call EXCEPT !.state = IF r.raised THEN "raised" ELSE "returned",
                                    !.ret = r]
       IN  returns(score(call.art, call.sandbox, host.explain, host.system))
    /\ UNCHANGED <<host, art, res, runs, pc>>

\* sandbox_checks(call.art)
SandboxChecks ==
    /\ call # NoCall /\ call.op = "sandbox_checks" /\ call.state = "pending"
    /\ call' = [call EXCEPT !.state = "returned", !.ret = sandbox_checks(call.art, host)]
    /\ UNCHANGED <<host, art, res, runs, pc>>

NextApi == Score \/ SandboxChecks

SpecApi == InitApi /\ [][NextApi]_vars

---------------------------------------------------------------------------
(* Properties *)

ScoreReturned == call # NoCall /\ call.op = "score" /\ call.state = "returned"
SandboxReturned == call # NoCall /\ call.op = "sandbox_checks" /\ call.state = "returned"

\* what the rules of score add up to for vm, before the cap
RawScore(vm) == SumPts(contributions(call.art, vm, host.system))

\* the capped score of vm before any sandbox penalty
UnpenalizedScore(vm) == Max(0, Min(100, RawScore(vm)))

\* C1: every score in the Score Map returned by Detector.score is an integer in
\* [0,100], for every collection and every Sandbox Report (including none).
C1_ScoresClamped ==
    ScoreReturned =>
        \A vm \in DOMAIN call.ret.scores :
            call.ret.scores[vm] \in Int /\ 0 <= call.ret.scores[vm] /\ call.ret.scores[vm] <= 100

\* overlapping matches add up to more than 100 for a product, which is returned as 100
C1_Witness ==
    /\ ScoreReturned
    /\ \E vm \in DOMAIN call.ret.scores : RawScore(vm) > 100 /\ call.ret.scores[vm] = 100

\* C2: with a Sandbox Report whose detected is true every final score is
\* max(0, c - 30), c being the product's capped score without the penalty; with
\* no report, or detected false, every final score is c.
C2_SandboxPenalty ==
    ScoreReturned =>
        \A vm \in DOMAIN call.ret.scores :
            call.ret.scores[vm] =
                IF call.sandbox # EmptyDict /\ call.sandbox.detected
                THEN Max(0, UnpenalizedScore(vm) - 30)
                ELSE UnpenalizedScore(vm)

\* a detected report takes 30 off one product and floors another at 0
C2_Witness ==
    /\ ScoreReturned
    /\ call.sandbox # EmptyDict /\ call.sandbox.detected
    /\ \E vm \in DOMAIN call.ret.scores :
           UnpenalizedScore(vm) > 30 /\ call.ret.scores[vm] = UnpenalizedScore(vm) - 30
    /\ \E vm \in DOMAIN call.ret.scores :
           UnpenalizedScore(vm) \in 1..29 /\ call.ret.scores[vm] = 0

Classifications == {"Hardened VM", "Detected VM", "Likely VM", "Unknown/Bare Metal"}

\* C3: the classification of detect is the first matching row of the decision
\* table: best<40 and count>=2 Hardened VM; best>=80 Detected VM whatever the
\* count; 40<=best<80 Likely VM; everything else Unknown/Bare Metal.
C3_ClassificationTable ==
    pc = "done" =>
        LET best == res.result.confidence
            n == res.hardened_signals
            c == res.result.classification
        IN  /\ c \in Classifications
            /\ best \in 0..100 /\ n >= 0
            /\ (best < 40 /\ n >= 2) => c = "Hardened VM"
            /\ best >= 80 => c = "Detected VM"
            /\ (40 <= best /\ best < 80) => c = "Likely VM"
            /\ (best < 40 /\ n < 2) => c = "Unknown/Bare Metal"

\* a score of 80 or more with two hardened signals is a Detected VM
C3_Witness ==
    /\ pc = "done"
    /\ res.result.confidence >= 80
    /\ res.hardened_signals >= 2
    /\ res.result.classification = "Detected VM"

\* C4: confidence is the maximum of the final Score Map; best_guess is a product
\* holding it when it is 20 or more, and "Unknown" when it is below 20.
C4_ConfidenceIsMax ==
    pc = "done" =>
        LET scores == res.result.scores
            conf == res.result.confidence
            guess == res.result.best_guess
        IN  /\ \A vm \in DOMAIN scores : scores[vm] <= conf
            /\ \E vm \in DOMAIN scores : scores[vm] = conf
            /\ conf >= 20 => guess \in DOMAIN scores /\ scores[guess] = conf
            /\ conf < 20 => guess = "Unknown"
            /\ scores = score(res.result.artifacts, res.result.anti_analysis,
                              FALSE, host.system).scores

\* a run under a detected sandbox whose best product is not the first of the
\* table and still holds 20 or more after the penalty
C4_Witness ==
    /\ pc = "done"
    /\ res.result.anti_analysis.detected
    /\ res.result.confidence >= 20
    /\ res.result.best_guess \notin {"Unknown", platforms[1]}

\* C5: detected is true exactly when debugger is true, or timing_anomaly is true,
\* or the five lists of the report hold 2 entries or more together.
C5_DetectedIff ==
    SandboxReturned =>
        LET r == call.ret
        IN  r.detected <=>
                \/ r.debugger
                \/ r.timing_anomaly
                \/ Len(r.heuristics) + Len(r.process_hits) + Len(r.env_hits)
                     + Len(r.disk_hits) + Len(r.system_hits) >= 2

\* two sandbox process hits, no debugger, no timing anomaly: detected
C5_Witness ==
    /\ SandboxReturned
    /\ call.ret.process_hits = <<"vboxservice", "wireshark">>
    /\ ~call.ret.debugger /\ ~call.ret.timing_anomaly
    /\ call.ret.detected

\* C6: detect never raises: whatever fails in a gatherer, the run reaches the
\* classification and returns a complete result.
C6_DetectNeverRaises ==
    pc # "ready" =>
        /\ pc = "done"
        /\ {"artifacts", "scores", "best_guess", "confidence", "anti_analysis",
            "classification"} \subseteq DOMAIN res.result

\* the values that match no signature and no keyword of the catalog
Unremarkable == {"DSDT", "0x8086", "bash", "Dell Inc.", "OptiPlex 7090",
                 "GenuineIntel"}

\* the fields of a that hold unremarkable values only
UnremarkableFields(a) ==
    {f \in OptionalStrFields : a[f] \in Unremarkable}
        \cup {f \in OptionalListFields : a[f] # <<>> /\ Range(a[f]) \subseteq Unremarkable}

\* the collection a with the field f absent
Without(a, f) ==
    [a EXCEPT ![f] = IF f \in OptionalStrFields THEN None ELSE <<>>]

\* sandbox_checks, then score, as detect composes them
Pipeline(a, h) == score(a, sandbox_checks(a, h), FALSE, h.system).scores

\* C7: absence is never negative evidence: with a field absent, no product's final
\* score is lower than with that field holding a value that matches nothing.
C7_AbsenceNeverNegative ==
    pc = "done" =>
        \A f \in UnremarkableFields(res.result.artifacts) :
            \A vm \in DOMAIN res.result.scores :
                Pipeline(Without(res.result.artifacts, f), host)[vm] >= res.result.scores[vm]

\* C8: score and sandbox_checks return normally whatever fields of the collection
\* are None or empty: a Score Map within [0,100], a report with its eight fields.
C8_NoMinimumEvidence ==
    (call # NoCall /\ call.state # "pending") =>
        /\ call.state = "returned"
        /\ call.op = "score" =>
               \A vm \in DOMAIN call.ret.scores : call.ret.scores[vm] \in 0..100
        /\ call.op = "sandbox_checks" =>
               DOMAIN call.ret = {"detected", "heuristics", "process_hits", "env_hits",
                                  "disk_hits", "system_hits", "debugger", "timing_anomaly"}

\* C9: the result of a detect call is the one a new Detector gives on the same
\* host: nothing gathered by an earlier call on this Detector is in it.
C9_RunsIndependent ==
    pc = "done" => res.result = detect(ArtifactCollection, host).result

\* the products in the order of the table
TableOrder == <<"VirtualBox", "VMware", "Hyper-V", "QEMU/KVM", "Parallels", "Xen">>

\* C10: among the products that share the maximum score, best_guess is the first
\* in the order VirtualBox, VMware, Hyper-V, QEMU/KVM, Parallels, Xen.
C10_FirstMaxWins ==
    (pc = "done" /\ res.result.confidence >= 20) =>
        \E i \in 1..Len(TableOrder) :
            /\ res.result.best_guess = TableOrder[i]
            /\ res.result.scores[TableOrder[i]] = res.result.confidence
            /\ \A j \in 1..(i - 1) : res.result.scores[TableOrder[j]] < res.result.confidence

\* two products share a maximum of 20 or more
C10_Witness ==
    /\ pc = "done"
    /\ res.result.confidence >= 20
    /\ Cardinality({vm \in DOMAIN res.result.scores :
                       res.result.scores[vm] = res.result.confidence}) >= 2


\* the vendor IDs that match the vendor tables of product vm
MatchingVendors(vm) ==
    Range(Lookup(VM_PCI_VENDORS, vm))
        \cup (IF vm \in DOMAIN VM_PCI_SIGNATURES
              THEN {"0x" \o v : v \in VM_PCI_SIGNATURES[vm].vendors} ELSE {})

\* the collection a with vid added to pci_vendors
WithVendor(a, vid) == [a EXCEPT !.pci_vendors = Append(OrEmpty(@), vid)]

\* the score of vm when the call is made with vid added to pci_vendors
ScoreWithVendor(vm, vid) ==
    final_score(WithVendor(call.art, vid), vm, call.sandbox, host.system)

\* C11: monotonicity: adding to pci_vendors one more vendor ID that matches the
\* vendor table of a product never decreases that product's score, whatever the
\* collection and the Sandbox Report.
C11_VendorMonotone ==
    ScoreReturned =>
        \A vm \in DOMAIN call.ret.scores :
            \A vid \in MatchingVendors(vm) :
                ScoreWithVendor(vm, vid) >= call.ret.scores[vm]

\* one more vendor raises a product's score, and leaves at 100 a product that the
\* cap already holds at 100
C11_Witness ==
    /\ ScoreReturned
    /\ \E vm \in DOMAIN call.ret.scores : \E vid \in MatchingVendors(vm) :
           ScoreWithVendor(vm, vid) > call.ret.scores[vm]
    /\ \E vm \in DOMAIN call.ret.scores : \E vid \in MatchingVendors(vm) :
           /\ call.ret.scores[vm] = 100
           /\ RawScore(vm) > 100
           /\ ScoreWithVendor(vm, vid) = 100


---------------------------------------------------------------------------
(* _clean_hex called on its own *)

\* the longest raw string tried, apart from the examples
MaxHexLen == 3

\* characters of raw ID strings: digits, letters in both cases, the parts of a
\* "0x" prefix, whitespace and characters that are no hexadecimal digit
HexAlphabet == {"0", "1", "5", "a", "A", "d", "D", "x", "X", " ", "g", ":"}

\* the strings over HexAlphabet of length n or less
RECURSIVE RawStrings(_)
RawStrings(n) ==
    IF n = 0 THEN {""}
    ELSE LET shorter == RawStrings(n - 1)
         IN  shorter \cup {c \o t : c \in HexAlphabet, t \in shorter}

HexExamples == {"15ad", "0x15AD", "  15AD ", "0X15ad", "0x12345", " 0x1 "}

\* a caller holds a raw ID string and is about to canonicalize it
InitHex ==
    /\ \E x \in RawStrings(MaxHexLen) \cup HexExamples :
           call = [op |-> "_clean_hex", state |-> "pending", arg |-> x,
                   ret |-> None, again |-> None]
    /\ host = AbsentHost
    /\ art = ArtifactCollection
    /\ res = NoResult
    /\ runs = 0
    /\ pc = "hex"

\* y = _clean_hex(x)
CleanHex ==
    /\ call # NoCall /\ call.op = "_clean_hex" /\ call.state = "pending"
    /\ call' = [call EXCEPT !.state = "cleaned", !.ret = _clean_hex(call.arg)]
    /\ UNCHANGED <<host, art, res, runs, pc>>

\* _clean_hex(y)
CleanHexAgain ==
    /\ call # NoCall /\ call.op = "_clean_hex" /\ call.state = "cleaned"
    /\ call' = [call EXCEPT !.state = "recleaned", !.again = _clean_hex(call.ret)]
    /\ UNCHANGED <<host, art, res, runs, pc>>

NextHex == CleanHex \/ CleanHexAgain

SpecHex == InitHex /\ [][NextHex]_vars

\* C12: _clean_hex is idempotent, _clean_hex(_clean_hex(x)) = _clean_hex(x) for
\* every string x, and "15ad", "0x15AD" and "  15AD " all give "0x15AD".
C12_CleanHexIdempotent ==
    (call # NoCall /\ call.op = "_clean_hex") =>
        /\ call.state = "recleaned" => call.again = call.ret
        /\ (call.state # "pending" /\ call.arg \in {"15ad", "0x15AD", "  15AD "})
               => call.ret = "0x15AD"

\* a padded lower-case ID is canonicalized, and canonicalizing again changes nothing
C12_Witness ==
    /\ call # NoCall /\ call.op = "_clean_hex"
    /\ call.state = "recleaned"
    /\ call.arg = "  15AD "
    /\ call.ret = "0x15AD"
    /\ call.again = "0x15AD"


UpperHexDigits == {"0", "1", "2", "3", "4", "5", "6", "7", "8", "9",
                   "A", "B", "C", "D", "E", "F"}

\* "0x" followed by exactly 4 uppercase hexadecimal digits
CanonicalId(x) ==
    /\ Len(x) = 6
    /\ SubSeq(x, 1, 2) = "0x"
    /\ \A i \in 3..6 : SubSeq(x, i, i) \in UpperHexDigits

\* C13: after _normalize every entry of pci_vendors and of pci_devices is "0x"
\* followed by exactly 4 uppercase hexadecimal digits, whatever raw ID strings
\* the probes produced.
C13_CanonicalIds ==
    pc = "done" =>
        \A x \in Range(res.result.artifacts.pci_vendors)
                   \cup Range(res.result.artifacts.pci_devices) : CanonicalId(x)


\* the fields of the collection that hold a set of strings
SetFields == {"pci_vendors", "pci_devices", "acpi_tables", "acpi_signatures", "processes",
              "mac_prefixes", "disk_vendors", "filesystem_artifacts", "hardware_quirks",
              "notes"}

\* C14: after gather_all every set-valued field of the collection holds no
\* duplicate entry and no empty-string entry, whatever raw values the probes
\* produced.
C14_NoDuplicateNoEmpty ==
    pc = "done" =>
        \A f \in SetFields :
            LET xs == res.result.artifacts[f]
            IN  /\ \A i \in 1..Len(xs) : xs[i] # ""
                /\ \A i, j \in 1..Len(xs) : xs[i] = xs[j] => i = j

\* the same, on hosts whose PCI ID files hold at least one hexadecimal digit
C14_WithHexDigits ==
    (pc = "done" /\ \A t \in host.pci.vendor \cup host.pci.device : _clean_hex(t) # "") =>
        \A f \in SetFields :
            LET xs == res.result.artifacts[f]
            IN  /\ \A i \in 1..Len(xs) : xs[i] # ""
                /\ \A i, j \in 1..Len(xs) : xs[i] = xs[j] => i = j


\* every field of the collection a is empty or absent
EmptyArtifacts(a) ==
    /\ \A f \in OptionalStrFields : ~Truthy(a[f])
    /\ \A f \in SetFields : a[f] = <<>>
    /\ ~a.hypervisor_flag

\* no sandbox heuristic fired
NoSandboxSignals(r) ==
    /\ ~r.detected /\ ~r.debugger /\ ~r.timing_anomaly
    /\ r.heuristics = <<>> /\ r.process_hits = <<>> /\ r.env_hits = <<>>
    /\ r.disk_hits = <<>> /\ r.system_hits = <<>>

\* C15 (scenario 2): with every artifact empty or absent, no sandbox heuristic and
\* no behavioural anomaly, all six scores are 0, best_guess is "Unknown",
\* confidence is 0 and classification is "Unknown/Bare Metal".
C15_EmptyIsBareMetal ==
    (/\ pc = "done"
     /\ EmptyArtifacts(res.result.artifacts)
     /\ NoSandboxSignals(res.result.anti_analysis)
     /\ "behavior_signals" \notin DOMAIN res.result) =>
        /\ DOMAIN res.result.scores = Range(TableOrder)
        /\ \A vm \in DOMAIN res.result.scores : res.result.scores[vm] = 0
        /\ res.result.best_guess = "Unknown"
        /\ res.result.confidence = 0
        /\ res.result.classification = "Unknown/Bare Metal"

\* a run on a host where nothing is found
C15_Witness ==
    /\ pc = "done"
    /\ EmptyArtifacts(res.result.artifacts)
    /\ NoSandboxSignals(res.result.anti_analysis)
    /\ "behavior_signals" \notin DOMAIN res.result
    /\ res.result.best_guess = "Unknown"
    /\ res.result.classification = "Unknown/Bare Metal"


\* what the rules of score add up to for vm in the collection of the result
RawResultScore(vm) == SumPts(contributions(res.result.artifacts, vm, host.system))

\* the collection of scenario 1, with no sandbox signal
Scenario1 ==
    /\ pc = "done"
    /\ res.result.artifacts.pci_vendors = <<"0x15AD">>
    /\ res.result.artifacts.bios_vendor = "VMware, Inc."
    /\ NoSandboxSignals(res.result.anti_analysis)

\* C16 (scenario 1): with pci_vendors = ["0x15AD"], bios_vendor = "VMware, Inc."
\* and no sandbox signal, the VMware score adds up past 100 and is clamped to
\* 100, best_guess is "VMware", confidence is 100, no other product reaches 100.
C16_VMwareClamped ==
    Scenario1 =>
        /\ RawResultScore("VMware") >= 60 + 20 + 25
        /\ res.result.scores["VMware"] = 100
        /\ res.result.best_guess = "VMware"
        /\ res.result.confidence = 100
        /\ \A vm \in DOMAIN res.result.scores \ {"VMware"} : res.result.scores[vm] < 100

\* scenario 1 with nothing else found on the host
C16_Witness ==
    /\ Scenario1
    /\ res.result.scores["VMware"] = 100
    /\ \A vm \in DOMAIN res.result.scores \ {"VMware"} : res.result.scores[vm] = 0


\* C17: every result of detect holds the keys artifacts, scores, best_guess,
\* confidence, anti_analysis and classification; explain exactly when explain was
\* requested; aggressive_exit (true) exactly when aggressive_sandbox was requested
\* and the Sandbox Report is detected; behavior_signals exactly when at least one
\* behavioural signal fired.
C17_ResultKeys ==
    pc = "done" =>
        LET keys == DOMAIN res.result
        IN  /\ {"artifacts", "scores", "best_guess", "confidence", "anti_analysis",
                "classification"} \subseteq keys
            /\ keys \subseteq {"artifacts", "scores", "best_guess", "confidence",
                               "anti_analysis", "classification", "explain",
                               "aggressive_exit", "behavior_signals"}
            /\ "explain" \in keys <=> host.explain
            /\ "aggressive_exit" \in keys <=>
                   (host.aggressive_sandbox /\ res.result.anti_analysis.detected)
            /\ "aggressive_exit" \in keys => res.result.aggressive_exit = TRUE
            /\ "behavior_signals" \in keys <=> res.hardened_signals >= 1
            /\ "behavior_signals" \in keys => res.result.behavior_signals # <<>>

\* an aggressive run under a detected sandbox with a behavioural signal and no
\* explain request
C17_Witness ==
    /\ pc = "done"
    /\ "aggressive_exit" \in DOMAIN res.result
    /\ "behavior_signals" \in DOMAIN res.result
    /\ "explain" \notin DOMAIN res.result


\* C18: score and sandbox_checks are read-only on their inputs: a call leaves
\* every table of the catalog and every field of the collection passed in (and
\* the Sandbox Report passed in) as it found them.
C18_ReadOnly ==
    [][(call # NoCall /\ "art" \in DOMAIN call /\ call'.state # call.state) =>
           /\ call'.art = call.art
           /\ call'.catalog = call.catalog /\ call'.catalog = Catalog
           /\ call'.sandbox = call.sandbox
           /\ art' = art]_vars

\* a call that returned on a collection with a None field and a non-empty list
C18_Witness ==
    /\ call # NoCall /\ "art" \in DOMAIN call
    /\ call.state = "returned"
    /\ \E f \in OptionalListFields : call.art[f] = NoneList
    /\ \E f \in OptionalListFields : call.art[f] \notin {NoneList, <<>>}
    /\ call.catalog = Catalog


---------------------------------------------------------------------------
(* The command line: main of vm_cli.py *)

\* the findings a host of a command-line run may hold
MaxCliFindings == 1

CliFlags == {"debug", "log", "explain", "sandbox_aggressive", "raw_json", "no_color"}

\* what main prints when it exits in aggressive mode: the notice, then
\* json.dumps(res, indent=2)
aggressive_exit_output_for_raw_json(args) ==
    IF args.debug \/ args.log \/ args.raw_json
    THEN <<"[AGGRESSIVE MODE] notice", "json.dumps(res)">> ELSE <<>>

aggressive_exit_output(args) ==
    IF args.debug \/ args.log THEN <<"[AGGRESSIVE MODE] notice", "json.dumps(res)">> ELSE <<>>

\* 'args.sandbox_aggressive and sandbox and sandbox.get("detected")'
aggressive_exit_taken(args, result) ==
    /\ args.sandbox_aggressive
    /\ "anti_analysis" \in DOMAIN result /\ result.anti_analysis # EmptyDict
    /\ result.anti_analysis.detected

\* what main prints after the aggressive-mode test when --raw-json is not given
summary_output(args, result) ==
    <<"VM DETECTION RESULTS", "CONFIDENCE BREAKDOWN", "SYSTEM ARTIFACTS",
      "ANTI-ANALYSIS DETECTION">>
        \o When("behavior_signals" \in DOMAIN result, "BEHAVIORAL VM INDICATORS")
        \o When(args.explain, "DETECTION REASONING")
        \o (IF args.debug \/ args.log THEN <<"DEBUG OUTPUT", "json.dumps(res)">> ELSE <<>>)

\* the command line is parsed and main is about to create its Detector
InitCli ==
    /\ \E F \in Subsets(Range(Findings) \ {"explain", "aggressive"}, MaxCliFindings),
          A \in SUBSET CliFlags :
           LET args == [f \in CliFlags |-> f \in A]
           IN  /\ host = [HostWith(F) EXCEPT !.explain = args.explain,
                                             !.aggressive_sandbox = args.sandbox_aggressive]
               /\ call = [op |-> "main", args |-> args, out |-> <<>>, status |-> None]
    /\ art = ArtifactCollection
    /\ res = NoResult
    /\ runs = 0
    /\ pc = "main"

\* det = Detector(); res = det.detect(explain=..., aggressive_sandbox=...)
CliDetect ==
    /\ pc = "main"
    /\ LET returns(d) ==
               /\ art' = d.art
               /\ res' = IF d.raised THEN [raised |-> TRUE]
                         ELSE [raised |-> FALSE, result |-> d.result,
                               hardened_signals |-> d.hardened_signals]
               /\ pc' = IF d.raised THEN "crashed" ELSE "ran"
               /\ call' = IF d.raised THEN [call EXCEPT !.status = 1] ELSE call
       IN  returns(detect(art, host))
    /\ runs' = runs + 1
    /\ UNCHANGED host

\* the aggressive-mode test passes: print if --debug or --log, then sys.exit(0)
CliAggressiveExit ==
    /\ pc = "ran"
    /\ aggressive_exit_taken(call.args, res.result)
    /\ call' = [call EXCEPT !.out = @ \o aggressive_exit_output(call.args), !.status = 0]
    /\ pc' = "exited"
    /\ UNCHANGED <<host, art, res, runs>>

\* --raw-json: print the result and return
CliRawJson ==
    /\ pc = "ran"
    /\ ~aggressive_exit_taken(call.args, res.result)
    /\ call.args.raw_json
    /\ call' = [call EXCEPT !.out = @ \o <<"json.dumps(res)">>, !.status = 0]
    /\ pc' = "returned"
    /\ UNCHANGED <<host, art, res, runs>>

\* the summary, the boxes and the optional sections, then return
CliSummary ==
    /\ pc = "ran"
    /\ ~aggressive_exit_taken(call.args, res.result)
    /\ ~call.args.raw_json
    /\ call' = [call EXCEPT !.out = @ \o summary_output(call.args, res.result), !.status = 0]
    /\ pc' = "returned"
    /\ UNCHANGED <<host, art, res, runs>>

NextCli == CliDetect \/ CliAggressiveExit \/ CliRawJson \/ CliSummary

SpecCli == InitCli /\ [][NextCli]_vars

\* C19: with --sandbox-aggressive and a Sandbox Report whose detected is true,
\* main exits at once with status 0 having printed nothing (no summary, no JSON,
\* also with --raw-json or --explain), unless --debug or --log is set: then it
\* has printed the aggressive-mode notice and the full result, and exits with 0.
C19_AggressiveExit ==
    (/\ pc \in {"ran", "exited", "returned"}
     /\ call.args.sandbox_aggressive
     /\ res.result.anti_analysis.detected) =>
        /\ pc # "returned"
        /\ pc = "ran" => call.out = <<>>
        /\ pc = "exited" =>
               /\ call.status = 0
               /\ call.out = IF call.args.debug \/ call.args.log
                             THEN <<"[AGGRESSIVE MODE] notice", "json.dumps(res)">>
                             ELSE <<>>

\* a silent exit with --raw-json and --explain given
C19_Witness ==
    /\ pc = "exited"
    /\ call.args.sandbox_aggressive /\ call.args.raw_json /\ call.args.explain
    /\ ~call.args.debug /\ ~call.args.log
    /\ res.result.anti_analysis.detected
    /\ call.out = <<>> /\ call.status = 0


\* the system product of a names a VM product
SuggestsVmProduct(a) ==
    /\ Truthy(a.system_product)
    /\ \E x \in {"virtualbox", "vmware", "qemu", "kvm", "xen", "hyper-v", "parallels"} :
           Contains(x, Lower(a.system_product))

\* the ACPI table t matches a VM product of ACPI_SIGS
MatchesVmProduct(t) ==
    \E vm \in DOMAIN ACPI_SIGS : \E i \in 1..Len(ACPI_SIGS[vm]) :
        StartsWith(Upper(t), Upper(ACPI_SIGS[vm][i]))

\* no ACPI table or signature matching a VM product was found
NoMatchingAcpi(a) ==
    /\ OrEmpty(a.acpi_signatures) = <<>>
    /\ \A t \in Range(OrEmpty(a.acpi_tables)) : ~MatchesVmProduct(t)

\* the report holds the contradiction signal
ContradictionSignal(r) ==
    /\ "missing_acpi_for_vm_product" \in Range(r.system_hits)
    /\ "system product suggests VM but ACPI signatures missing" \in Range(r.heuristics)

\* C20: sandbox_checks records the contradiction signal (one heuristic and the
\* system_hits entry missing_acpi_for_vm_product) whenever system_product names a
\* VM product and no ACPI table or signature matching a VM product was found,
\* also when acpi_tables holds only tables that match no VM product.
C20_ContradictionSignal ==
    (SandboxReturned /\ SuggestsVmProduct(call.art) /\ NoMatchingAcpi(call.art)) =>
        ContradictionSignal(call.ret)

\* the same, when no ACPI table at all was read
C20_WhenNoTableRead ==
    (SandboxReturned /\ SuggestsVmProduct(call.art)
        /\ OrEmpty(call.art.acpi_signatures) = <<>> /\ OrEmpty(call.art.acpi_tables) = <<>>) =>
        ContradictionSignal(call.ret)


\* the reason strings of the rules of score that fire for vm, in evaluation
\* order, followed by the penalty's when the penalty applies
RuleFirings(vm) ==
    LET cs == contributions(call.art, vm, host.system)
    IN  [i \in 1..Len(cs) |-> cs[i].why]
            \o (IF call.sandbox # EmptyDict /\ call.sandbox.detected
                THEN <<"Sandbox heuristics detected -> -30 penalty">> ELSE <<>>)

\* C21: with explain=True every product's Explain Map entry holds exactly one
\* reason string per rule that fired for the product (one per score
\* contribution, one more for the sandbox penalty when it applies), in
\* evaluation order: its length is the number of rule firings.
C21_ExplainPerFiring ==
    (ScoreReturned /\ host.explain) =>
        /\ "explain" \in DOMAIN call.ret
        /\ \A vm \in DOMAIN call.ret.scores :
               /\ Len(call.ret.explain[vm]) = Len(RuleFirings(vm))
               /\ call.ret.explain[vm] = RuleFirings(vm)

\* the same, for a Sandbox Report with no process hit and no timing anomaly
C21_WithoutSandboxNotes ==
    (/\ ScoreReturned /\ host.explain
     /\ call.sandbox # EmptyDict => (call.sandbox.process_hits = <<>>
                                       /\ ~call.sandbox.timing_anomaly)) =>
        /\ "explain" \in DOMAIN call.ret
        /\ \A vm \in DOMAIN call.ret.scores : call.ret.explain[vm] = RuleFirings(vm)


\* behavior_signals at the return of detect: the list that the result carries
\* when it is not empty
BehaviorSignals == IF "behavior_signals" \in DOMAIN res.result
                   THEN res.result.behavior_signals ELSE <<>>

\* C22: in detect the hardened signal count that reaches the classifier equals
\* the length of behavior_signals: every condition that increments the count
\* appends exactly one string and nothing else appends; the hardware quirk
\* "no_battery_detected" contributes neither a count nor a string.
C22_CountIsLength ==
    pc = "done" =>
        /\ res.hardened_signals = Len(BehaviorSignals)
        /\ "Hardware quirk: no_battery_detected" \notin Range(BehaviorSignals)

\* a run on a battery-less host that shows another behaviour signal as well
C22_Witness ==
    /\ pc = "done"
    /\ "no_battery_detected" \in Range(res.result.artifacts.hardware_quirks)
    /\ res.hardened_signals >= 1
    /\ res.hardened_signals = Len(BehaviorSignals)


\* the products whose keyword of the system-product rule is in the lower-cased
\* system_product of the collection of the call
KeywordProducts ==
    LET mfg == Lower(call.art.system_product)
    IN  {vm \in {"QEMU/KVM", "VMware", "VirtualBox", "Hyper-V"} :
            \/ vm = "QEMU/KVM" /\ (Contains("qemu", mfg) \/ Contains("kvm", mfg))
            \/ vm = "VMware" /\ Contains("vmware", mfg)
            \/ vm = "VirtualBox" /\ Contains("virtualbox", mfg)
            \/ vm = "Hyper-V" /\ Contains("microsoft", mfg)}

\* the products of the system-product rule, in the order of its if/elif chain
StrongRuleOrder == <<"QEMU/KVM", "VMware", "VirtualBox", "Hyper-V">>

\* what the system-product rule adds to the score of vm before the cap: the
\* score before the cap, less what it is where the rule does not run
StrongGain(vm) ==
    SumPts(contributions(call.art, vm, host.system))
        - SumPts(contributions(call.art, vm, "Linux"))

\* exactly one product gains 50 by the system-product rule, it is one of the
\* products P, and no other product's score changes
OneGains50(P) ==
    \E vm \in P :
        /\ StrongGain(vm) = 50
        /\ \A other \in DOMAIN call.ret.scores \ {vm} : StrongGain(other) = 0

---------------------------------------------------------------------------
(* gather_network_latency, one connect trial at a time *)

\* what one s.connect to the closed port can do, with the time the trial then
\* measures in microseconds: connect, fail with an error, run into the 1 s timeout
ConnectResults ==
    {[outcome |-> "connected", us |-> 200],
     [outcome |-> "error",     us |-> 50],
     [outcome |-> "timeout",   us |-> 1000000]}

\* a trial whose failing connect leaves the loop, as without the inner except
connect_trial_aborting(c, r) ==
    IF r.outcome = "connected"
    THEN [c EXCEPT !.connects = @ + 1,
                   !.outcomes = Append(@, r.outcome),
                   !.timings = Append(@, r.us)]
    ELSE [c EXCEPT !.connects = @ + 1,
                   !.outcomes = Append(@, r.outcome),
                   !.state = "aborted"]

\* one trial of the loop: connect, swallow what it raises, append the timing
connect_trial(c, r) ==
    [c EXCEPT !.connects = @ + 1,
              !.outcomes = Append(@, r.outcome),
              !.timings = Append(@, r.us)]

\* gather_network_latency(art) has been called on an empty collection
InitLatency ==
    /\ call = [op |-> "gather_network_latency", state |-> "looping", connects |-> 0,
               outcomes |-> <<>>, timings |-> <<>>, socket_raised |-> FALSE]
    /\ host = AbsentHost
    /\ art = ArtifactCollection
    /\ res = NoResult
    /\ runs = 0
    /\ pc = "latency"

\* one pass of 'for _ in range(10)' in which the socket is made
ConnectTrial ==
    /\ pc = "latency" /\ call.state = "looping" /\ Len(call.outcomes) < Trials
    /\ \E r \in ConnectResults : call' = connect_trial(call, r)
    /\ UNCHANGED <<host, art, res, runs, pc>>

\* socket.socket or settimeout raises: the outer except ends the function
SocketRaises ==
    /\ pc = "latency" /\ call.state = "looping" /\ Len(call.outcomes) < Trials
    /\ call' = [call EXCEPT !.state = "aborted", !.socket_raised = TRUE]
    /\ UNCHANGED <<host, art, res, runs, pc>>

\* after the loop: the block is made of the timings
LatencyBlock ==
    /\ pc = "latency" /\ call.state = "looping" /\ Len(call.outcomes) = Trials
    /\ art' = [art EXCEPT !.network_latency = network_latency_block(call.timings)]
    /\ call' = [call EXCEPT !.state = "returned"]
    /\ pc' = "done"
    /\ UNCHANGED <<host, res, runs>>

\* the function returns without a block
LatencyAborted ==
    /\ pc = "latency" /\ call.state = "aborted"
    /\ pc' = "done"
    /\ UNCHANGED <<host, art, res, runs, call>>

NextLatency == ConnectTrial \/ SocketRaises \/ LatencyBlock \/ LatencyAborted

SpecLatency == InitLatency /\ [][NextLatency]_vars

C25_DetectedSandboxCapsAt70 ==
    (pc = "done" /\ res.result.anti_analysis.detected) =>
        /\ \A vm \in DOMAIN res.result.scores : res.result.scores[vm] <= 70
        /\ res.result.confidence <= 70
        /\ res.result.classification # "Detected VM"

\* a run under a detected sandbox on a host whose VMware evidence exceeds 100
\* before the cap: VMware is returned as 70, a "Likely VM"
C25_Witness ==
    /\ pc = "done"
    /\ res.result.anti_analysis.detected
    /\ RawResultScore("VMware") > 100
    /\ res.result.scores["VMware"] = 70
    /\ res.result.confidence = 70
    /\ res.result.classification = "Likely VM"


\* the number of entries of the four hit lists of a Sandbox Report
HitCount(r) ==
    Len(r.process_hits) + Len(r.env_hits) + Len(r.disk_hits) + Len(r.system_hits)

\* the heuristics that the low-resources block of sandbox_checks appends
StarvationHeuristics == {"low memory", "single CPU"}

\* C26: in sandbox_checks every process, environment, disk or system hit is
\* recorded in its hit list and in heuristics as well, so that a single such hit
\* makes the total count 2 and sets detected; a single resource-starvation
\* heuristic (low memory or single CPU) is recorded in heuristics only and does
\* not set detected by itself.
C26_HitsCountTwice ==
    SandboxReturned =>
        LET r == call.ret
            total == Len(r.heuristics) + HitCount(r)
        IN  /\ Len(r.heuristics) >= HitCount(r)
            /\ \A i \in 1..Len(r.process_hits) :
                   ("sandbox process: " \o r.process_hits[i]) \in Range(r.heuristics)
            /\ \A i \in 1..Len(r.env_hits) :
                   ("env var looks sandboxy: " \o r.env_hits[i]) \in Range(r.heuristics)
            /\ HitCount(r) >= 1 => (total >= 2 /\ r.detected)
            /\ (/\ Len(r.heuristics) = 1
                /\ r.heuristics[1] \in StarvationHeuristics) =>
                   (HitCount(r) = 0 /\ total = 1 /\ ~r.detected)

\* one sandbox process and nothing else: one hit, one heuristic, detected
C26_Witness ==
    /\ SandboxReturned
    /\ Len(call.ret.process_hits) = 1
    /\ HitCount(call.ret) = 1
    /\ Len(call.ret.heuristics) = 1
    /\ ~call.ret.debugger /\ ~call.ret.timing_anomaly
    /\ call.ret.detected

\* a host short of memory and nothing else: one heuristic, not detected
C26_StarvationAlone ==
    /\ SandboxReturned
    /\ call.ret.heuristics = <<"low memory">>
    /\ HitCount(call.ret) = 0
    /\ ~call.ret.detected

=============================================================================
